---- MODULE Spec2Model ----
(***************************************************************************)
(* CLI TOTP authenticator (src/src/main.rs).                               *)
(*                                                                         *)
(* The consumer loop of main() owns all state: the App structure (input    *)
(* buffers, the displayed list `messages`, the refreshed list `keys`, the  *)
(* countdown `progress`), the list selection, the active tab and the two   *)
(* mode flags.  One action per arm of `match rx.recv()?`.                  *)
(*                                                                         *)
(* The producer thread spawned by main() polls the terminal, sends every   *)
(* key press and a Tick every 200 ms over the mpsc channel.  One action    *)
(* per step of its loop; the channel is a FIFO queue.                      *)
(*                                                                         *)
(* Conventions                                                             *)
(*   - Rust indices are 0-based, TLA+ sequences 1-based: `selected` keeps  *)
(*     the Rust value, element i of a Vec is seq[i + 1].                   *)
(*   - Strings are sequences of one-character strings; a decimal string is *)
(*     a sequence of digits 0..9.                                          *)
(*   - f64 progress is kept in units of 1/10000: 0.0065 is 65, 1.0 is      *)
(*     10000.  The rounding error of at most 154 additions of 0.0065 is    *)
(*     below 1e-13, far from deciding `progress > 1.0` (0.9945 vs 1.0010). *)
(***************************************************************************)
EXTENDS Integers, Sequences, FiniteSets, TLC

VARIABLES
    app,               \* struct App: account, key, messages, progress, keys
    selected,          \* code_list_state.selected(), always Some(n)
    active_menu_item,  \* MenuItem
    key_input_flag,    \* bool
    active_menu_keys,  \* bool
    consumer,          \* position of main(): "loop", "exited", "panicked"
    now,               \* SystemTime::now() in whole seconds since the epoch
    overflow_checks,   \* build profile: TRUE = debug (checked arithmetic)
    added,             \* history: per displayed entry, the secret it was built from
                       \* (Totp keeps only the code string and the label)
    first_tick_at,     \* history: `now` at the first processed Tick, -1 before
    derived,           \* the last two runs of generate_code on their own: prev, last
    channel,           \* mpsc::channel(): events sent and not yet received, oldest first
    terminal_events,   \* crossterm: terminal events not yet read by event::read()
    producer,          \* position of the producer thread: "poll", "read", "check", "panicked"
    last_tick_elapsed, \* last_tick.elapsed() in milliseconds
    owed,              \* history: key presses read and Ticks emitted by the producer
                       \* that the consumer has not received yet, oldest first
    since_tick,        \* history: milliseconds since the last Tick was sent
    keys_since_due     \* history: key events sent since the pending Tick became due

\* the state owned by the consumer loop, the clock and the derivation runs
cvars == <<app, selected, active_menu_item, key_input_flag, active_menu_keys,
           consumer, now, overflow_checks, added, first_tick_at, derived>>

\* the state of the producer thread, the terminal and the channel
io == <<channel, terminal_events, producer, last_tick_elapsed, owed,
        since_tick, keys_since_due>>

vars == <<cvars, io>>

----------------------------------------------------------------------------
(* Bounds of the model *)

\* longest text typed into one input buffer
MaxBuf == 1
\* most entries ever pushed to app.messages at one time
MaxMsgs == 3
\* most entries ever pushed to app.keys (it never shrinks)
MaxKeys == 3
\* how far the selection may run away from both ends of the usize range
MaxSel == 2
\* last 30-second window the clock reaches
MaxWindow == 1
\* most terminal events waiting to be read by the producer
MaxPending == 1
\* most events waiting in the channel
MaxQueue == 2
\* milliseconds by which the clock of the producer moves in one step
Quantum == 100
\* steps of the clock the producer may run behind a Tick that is due
MaxLate == 1

(* Program constants *)

\* let t0 = 0;
T0 == 0
\* let tx = 30;
TX == 30
\* 10_u64.pow(6)
CODE_MODULUS == 1000000
\* let tick_rate = Duration::from_millis(200);
TICK_RATE == 200
\* self.progress += 0.0065, in units of 1/10000
PROGRESS_STEP == 65
\* if self.progress > 1.0, in units of 1/10000
PROGRESS_FULL == 10000
\* usize::MAX.  TLC's integers are 32-bit signed, so the model takes 2^31 - 1
\* for it; like the real value it exceeds every list length the model reaches,
\* and no step of the program adds to it.
USIZE_MAX == 2147483647

\* KeyCode::Char(c): the five characters main() matches by name, and one other
Chars == {"q", "h", "c", "a", "d", "x"}

Ascii == [c \in Chars |->
            CASE c = "q" -> 113 [] c = "h" -> 104 [] c = "c" -> 99
              [] c = "a" -> 97  [] c = "d" -> 100 [] c = "x" -> 120]

\* instants the wall clock is sampled at: first and last second of each window
Times == {w * TX + o : w \in 0..MaxWindow, o \in {0, TX - 1}}

----------------------------------------------------------------------------
(* Pure helpers *)

\* u64::to_string: decimal digits, no padding
RECURSIVE to_string(_)
to_string(n) == IF n < 10 THEN <<n>> ELSE Append(to_string(n \div 10), n % 10)

\* str::as_bytes
as_bytes(key) == [i \in 1..Len(key) |-> Ascii[key[i]]]

RECURSIVE SumSeq(_)
SumSeq(s) == IF s = <<>> THEN 0 ELSE Head(s) + SumSeq(Tail(s))

\* hmac::sign(&Key::new(HMAC_SHA256, ctk), &ct.to_be_bytes()) followed by
\* read_u64::<BigEndian>: the first 8 digest bytes as an integer.  ring's
\* HMAC-SHA256 is a library outside this repository; it is represented by a
\* fixed deterministic function of the key bytes and the counter whose values
\* differ between windows, exceed 10^6, and collide for some distinct keys.
HmacSha256First8(ctk, ct) ==
    ((SumSeq(ctk) + 3 * Len(ctk)) % 8) * 2250011 + ct * 3500017 + 90000

\* a plausible slip: the division by the step left out, the counter in seconds
generate_code_seconds(key, t) ==
    HmacSha256First8(as_bytes(key), t - T0) % CODE_MODULUS

\* a plausible slip: the reduction to six digits left out
generate_code_unreduced(key, t) ==
    HmacSha256First8(as_bytes(key), (t - T0) \div TX)

\* generate_code, with the clock reading as a parameter.  The digest of
\* HMAC-SHA256 is always 32 bytes, so the retry branch is never taken.
generate_code(key, t) ==
    LET time_in_seconds == t
        ct == (time_in_seconds - T0) \div TX
    IN  HmacSha256First8(as_bytes(key), ct) % CODE_MODULUS

\* code_constructor: Totp { key: totpcode.to_string(), address: account }
code_constructor(key, account, t) ==
    [key |-> to_string(generate_code(key, t)), address |-> account]

\* impl PartialEq for Totp: only the code string is compared
TotpEq(x, y) == x.key = y.key

\* Vec<Totp>::contains
Contains(msgs, codemsg) == \E j \in 1..Len(msgs) : TotpEq(msgs[j], codemsg)

\* iter_mut().find(|x| x.address == *a): 1-based position of the first match, 0 if none
Find(msgs, a) ==
    IF \E j \in 1..Len(msgs) : msgs[j].address = a
    THEN CHOOSE j \in 1..Len(msgs) :
            /\ msgs[j].address = a
            /\ \A k \in 1..(j - 1) : msgs[k].address # a
    ELSE 0

\* a plausible slip: Vec::swap_remove(i), which moves the last element into the gap
SwapRemoveAt(s, i) ==
    [j \in 1..(Len(s) - 1) |-> IF j = i + 1 THEN s[Len(s)] ELSE s[j]]

\* Vec::remove(i) for a valid 0-based i: later elements shift left
RemoveAt(s, i) == [j \in 1..(Len(s) - 1) |-> IF j <= i THEN s[j] ELSE s[j + 1]]

\* usize subtraction in a build without overflow checks
WrappingSub(a, b) == IF a >= b THEN a - b ELSE USIZE_MAX - (b - a) + 1

\* a plausible slip: the wrap left out
WrapNever(p) == p

\* if self.progress > 1.0 { self.progress = 0.0 }
Wrap(p) == IF p > PROGRESS_FULL THEN 0 ELSE p

\* a plausible slip: the pass overwrites the code and leaves the countdown alone
RECURSIVE UpdateLoopNoReset(_, _, _, _, _)
UpdateLoopNoReset(msgs, prog, ks, i, t) ==
    IF i > Len(ks) THEN [messages |-> msgs, progress |-> prog]
    ELSE LET codemsg == code_constructor(ks[i][1], ks[i][2], t)
             r == Find(msgs, ks[i][2])
         IN  IF ~Contains(msgs, codemsg) /\ r # 0
             THEN UpdateLoopNoReset([msgs EXCEPT ![r].key = codemsg.key], prog, ks, i + 1, t)
             ELSE UpdateLoopNoReset(msgs, prog, ks, i + 1, t)

\* the for loop of App::update over self.keys, from entry i on
RECURSIVE UpdateLoop(_, _, _, _, _)
UpdateLoop(msgs, prog, ks, i, t) ==
    IF i > Len(ks) THEN [messages |-> msgs, progress |-> prog]
    ELSE LET k == ks[i][1]
             a == ks[i][2]
             codemsg == code_constructor(k, a, t)
             r == Find(msgs, a)
         IN  IF ~Contains(msgs, codemsg) /\ r # 0
             THEN UpdateLoop([msgs EXCEPT ![r].key = codemsg.key], 0, ks, i + 1, t)
             ELSE UpdateLoop(msgs, prog, ks, i + 1, t)

\* App::update
update(a, t) ==
    LET pass == UpdateLoop(a.messages, a.progress, a.keys, 1, t)
    IN  [a EXCEPT !.messages = pass.messages,
                  !.progress = Wrap(pass.progress + PROGRESS_STEP)]

\* a plausible slip: the selection left where it was
SelectAfterRemoveKeep(sel) == sel

\* the selection after remove_code_at_index
SelectAfterRemove(sel) == IF sel > 1 THEN sel - 1 ELSE 0

----------------------------------------------------------------------------
(* Initial state: App::default(), code_list_state.select(Some(0)); the      *)
(* producer thread at the top of its loop, last_tick = Instant::now()       *)

\* no run of generate_code recorded
NoRun == [secret |-> <<>>, at |-> -1, code |-> -1]

Init ==
    /\ app = [account |-> <<>>, key |-> <<>>, input_mode |-> "Normal",
              messages |-> <<>>, progress |-> 0, keys |-> <<>>]
    /\ selected = 0
    /\ active_menu_item = "Home"
    /\ key_input_flag = FALSE
    /\ active_menu_keys = TRUE
    /\ consumer = "loop"
    /\ now \in Times
    /\ overflow_checks \in BOOLEAN
    /\ added = <<>>
    /\ first_tick_at = -1
    /\ derived = [prev |-> NoRun, last |-> NoRun]
    /\ channel = <<>>
    /\ terminal_events = <<>>
    /\ producer = "poll"
    /\ last_tick_elapsed = 0
    /\ owed = <<>>
    /\ since_tick = 0
    /\ keys_since_due = 0

----------------------------------------------------------------------------
(* Consumer: one action per arm of the match on the received event *)

Frame == UNCHANGED <<now, overflow_checks, first_tick_at, derived>>

\* the else branches of the named characters, and KeyCode::Char(c)
PushChar(c) ==
    /\ Len(IF key_input_flag THEN app.key ELSE app.account) < MaxBuf
    /\ app' = IF key_input_flag
              THEN [app EXCEPT !.key = Append(@, c)]
              ELSE [app EXCEPT !.account = Append(@, c)]

\* a plausible slip: the test of active_menu_keys left out, 'q' always quits
KeyQAlwaysQuits ==
    /\ consumer = "loop"
    /\ consumer' = "exited"
    /\ UNCHANGED <<app, selected, active_menu_item, key_input_flag, active_menu_keys, added>>
    /\ Frame

\* a plausible slip: the break left out, 'q' does nothing as a menu key
KeyQKeepsRunning ==
    /\ consumer = "loop"
    /\ IF active_menu_keys
       THEN UNCHANGED <<app, consumer>>
       ELSE /\ PushChar("q")
            /\ UNCHANGED consumer
    /\ UNCHANGED <<selected, active_menu_item, key_input_flag, active_menu_keys, added>>
    /\ Frame

\* KeyCode::Char('q'); "exited" stands for the arm that calls disable_raw_mode
\* and show_cursor and breaks out of the loop
KeyQ ==
    /\ consumer = "loop"
    /\ IF active_menu_keys
       THEN /\ consumer' = "exited"
            /\ UNCHANGED app
       ELSE /\ PushChar("q")
            /\ UNCHANGED consumer
    /\ UNCHANGED <<selected, active_menu_item, key_input_flag, active_menu_keys, added>>
    /\ Frame

\* KeyCode::Char('h')
KeyH ==
    /\ consumer = "loop"
    /\ IF active_menu_keys
       THEN /\ active_menu_item' = "Home"
            /\ UNCHANGED app
       ELSE /\ PushChar("h")
            /\ UNCHANGED active_menu_item
    /\ UNCHANGED <<selected, key_input_flag, active_menu_keys, consumer, added>>
    /\ Frame

\* KeyCode::Char('c')
KeyC ==
    /\ consumer = "loop"
    /\ IF active_menu_keys
       THEN /\ active_menu_item' = "Codes"
            /\ UNCHANGED app
       ELSE /\ PushChar("c")
            /\ UNCHANGED active_menu_item
    /\ UNCHANGED <<selected, key_input_flag, active_menu_keys, consumer, added>>
    /\ Frame

\* KeyCode::Char('a')
KeyA ==
    /\ consumer = "loop"
    /\ IF active_menu_keys
       THEN /\ active_menu_item' = "AddCode"
            /\ active_menu_keys' = FALSE
            /\ UNCHANGED app
       ELSE /\ PushChar("a")
            /\ UNCHANGED <<active_menu_item, active_menu_keys>>
    /\ UNCHANGED <<selected, key_input_flag, consumer, added>>
    /\ Frame

\* remove_code_at_index; Vec::remove panics when the index is not below the length
KeyD ==
    /\ consumer = "loop"
    /\ IF active_menu_keys
       THEN IF selected < Len(app.messages)
            THEN /\ app' = [app EXCEPT !.messages = RemoveAt(@, selected)]
                 /\ added' = RemoveAt(added, selected)
                 /\ selected' = SelectAfterRemove(selected)
                 /\ UNCHANGED consumer
            ELSE /\ consumer' = "panicked"
                 /\ UNCHANGED <<app, added, selected>>
       ELSE /\ PushChar("d")
            /\ UNCHANGED <<consumer, added, selected>>
    /\ UNCHANGED <<active_menu_item, key_input_flag, active_menu_keys>>
    /\ Frame

\* KeyCode::Char(c), any other character
KeyChar ==
    /\ consumer = "loop"
    /\ active_menu_keys' = FALSE
    /\ PushChar("x")
    /\ UNCHANGED <<selected, active_menu_item, key_input_flag, consumer, added>>
    /\ Frame

\* KeyCode::Esc
KeyEsc ==
    /\ consumer = "loop"
    /\ active_menu_keys' = TRUE
    /\ UNCHANGED <<app, selected, active_menu_item, key_input_flag, consumer, added>>
    /\ Frame

\* KeyCode::Tab
KeyTab ==
    /\ consumer = "loop"
    /\ key_input_flag' = ~key_input_flag
    /\ UNCHANGED <<app, selected, active_menu_item, active_menu_keys, consumer, added>>
    /\ Frame

\* KeyCode::Enter
KeyEnter ==
    /\ consumer = "loop"
    /\ Len(app.messages) < MaxMsgs
    /\ Len(app.key) > 0 => Len(app.keys) < MaxKeys
    /\ LET account == app.account
           key == app.key
       IN  /\ app' = [app EXCEPT
                        !.account = <<>>,
                        !.key = <<>>,
                        !.keys = IF Len(key) > 0
                                 THEN Append(@, <<key, account, 0>>)
                                 ELSE @,
                        !.messages = Append(@, code_constructor(key, account, now))]
           /\ added' = Append(added, key)
    /\ key_input_flag' = FALSE
    /\ UNCHANGED <<selected, active_menu_item, active_menu_keys, consumer>>
    /\ Frame

\* KeyCode::Backspace
KeyBackspace ==
    /\ consumer = "loop"
    /\ app' = IF key_input_flag
              THEN [app EXCEPT !.key = IF @ = <<>> THEN @ ELSE SubSeq(@, 1, Len(@) - 1)]
              ELSE [app EXCEPT !.account = IF @ = <<>> THEN @ ELSE SubSeq(@, 1, Len(@) - 1)]
    /\ UNCHANGED <<selected, active_menu_item, key_input_flag, active_menu_keys,
                   consumer, added>>
    /\ Frame

\* the selection stays within MaxSel of either end of the usize range
SelBounded(s) == s <= MaxSel \/ s >= USIZE_MAX - MaxSel

\* KeyCode::Down
KeyDown ==
    /\ consumer = "loop"
    /\ IF active_menu_keys
       THEN LET number_of_codes_gens == Len(app.messages)
            IN  IF number_of_codes_gens = 0 /\ overflow_checks
                THEN /\ consumer' = "panicked"
                     /\ UNCHANGED selected
                ELSE /\ selected' = IF selected >= WrappingSub(number_of_codes_gens, 1)
                                    THEN 0
                                    ELSE selected + 1
                     /\ SelBounded(selected')
                     /\ UNCHANGED consumer
       ELSE UNCHANGED <<selected, consumer>>
    /\ UNCHANGED <<app, active_menu_item, key_input_flag, active_menu_keys, added>>
    /\ Frame

\* KeyCode::Up
KeyUp ==
    /\ consumer = "loop"
    /\ IF active_menu_keys
       THEN LET number_of_codes_gens == Len(app.messages)
            IN  IF selected > 0
                THEN /\ selected' = selected - 1
                     /\ SelBounded(selected')
                     /\ UNCHANGED consumer
                ELSE IF number_of_codes_gens = 0 /\ overflow_checks
                     THEN /\ consumer' = "panicked"
                          /\ UNCHANGED selected
                     ELSE /\ selected' = WrappingSub(number_of_codes_gens, 1)
                          /\ UNCHANGED consumer
       ELSE UNCHANGED <<selected, consumer>>
    /\ UNCHANGED <<app, active_menu_item, key_input_flag, active_menu_keys, added>>
    /\ Frame

\* any other key: _ => {}
KeyOther ==
    /\ consumer = "loop"
    /\ UNCHANGED cvars

\* Event::Tick => app.update()
TickBody ==
    /\ consumer = "loop"
    /\ app' = update(app, now)
    /\ UNCHANGED <<selected, active_menu_item, key_input_flag, active_menu_keys,
                   consumer, now, overflow_checks, added, derived>>

\* a Tick, the history of Ticks not recorded
Tick == TickBody /\ UNCHANGED first_tick_at

\* a Tick, recording when the first one was processed
TickObserved ==
    TickBody /\ first_tick_at' = IF first_tick_at = -1 THEN now ELSE first_tick_at

\* the strings the secret buffer can hold
Secrets == UNION {[1..n -> Chars] : n \in 0..MaxBuf}

\* one run of generate_code(key) on its own, at the clock's reading
DeriveRun(key) ==
    /\ derived' = [prev |-> derived.last,
                   last |-> [secret |-> key, at |-> now,
                             code |-> generate_code(key, now)]]
    /\ UNCHANGED <<app, selected, active_menu_item, key_input_flag, active_menu_keys,
                   consumer, now, overflow_checks, added, first_tick_at>>

\* the wall clock moves on between two events
ClockAdvance ==
    /\ consumer = "loop"
    /\ \E t \in Times : t > now /\ now' = t
    /\ UNCHANGED <<app, selected, active_menu_item, key_input_flag, active_menu_keys,
                   consumer, overflow_checks, added, first_tick_at, derived>>

----------------------------------------------------------------------------
(* Producer thread: one action per step of its loop.  The receiver lives as *)
(* long as main() does: once the consumer has left its loop the process is  *)
(* about to end, and a send made in between succeeds or fails depending on  *)
(* whether the receiver has been dropped yet.                               *)

\* if let CEvent::Key(key) = event::read(): every event of the model but a resize
IsKey(e) == e # "Resize"

\* whether tx.send can return Ok(()) / Err(_)
SendOutcomes == IF consumer = "loop" THEN {TRUE} ELSE {TRUE, FALSE}

\* the terminal delivers an event (a key press, or a resize of the window)
TerminalEvent(e) ==
    /\ Len(terminal_events) < MaxPending
    /\ terminal_events' = Append(terminal_events, e)
    /\ UNCHANGED <<channel, producer, last_tick_elapsed, owed, since_tick, keys_since_due>>
    /\ UNCHANGED cvars

\* event::poll(timeout) returns true: an event is available
PollReady ==
    /\ producer = "poll"
    /\ terminal_events # <<>>
    /\ producer' = "read"
    /\ UNCHANGED <<channel, terminal_events, last_tick_elapsed, owed, since_tick,
                   keys_since_due>>
    /\ UNCHANGED cvars

\* event::poll(timeout) returns false: timeout = tick_rate - last_tick.elapsed()
\* (or zero) has passed without an event
PollTimeout ==
    /\ producer = "poll"
    /\ terminal_events = <<>>
    /\ last_tick_elapsed >= TICK_RATE
    /\ producer' = "check"
    /\ UNCHANGED <<channel, terminal_events, last_tick_elapsed, owed, since_tick,
                   keys_since_due>>
    /\ UNCHANGED cvars

\* a plausible slip: a channel of capacity one and try_send, so that a key
\* press is dropped while an earlier event waits in the channel
ReadSendBounded ==
    /\ producer = "read"
    /\ LET e == Head(terminal_events)
       IN  /\ terminal_events' = Tail(terminal_events)
           /\ owed' = IF IsKey(e) THEN Append(owed, e) ELSE owed
           /\ channel' = IF IsKey(e) /\ channel = <<>> THEN Append(channel, e) ELSE channel
    /\ producer' = "check"
    /\ UNCHANGED <<last_tick_elapsed, since_tick, keys_since_due>>
    /\ UNCHANGED cvars

\* a plausible slip: the tick timer restarted on every key press sent
ReadSendRestartsTimer ==
    /\ producer = "read"
    /\ Len(channel) < MaxQueue
    /\ LET e == Head(terminal_events)
       IN  /\ terminal_events' = Tail(terminal_events)
           /\ IF IsKey(e)
              THEN /\ owed' = Append(owed, e)
                   /\ channel' = Append(channel, e)
                   /\ keys_since_due' = IF since_tick >= TICK_RATE
                                        THEN keys_since_due + 1
                                        ELSE keys_since_due
                   /\ last_tick_elapsed' = 0
              ELSE UNCHANGED <<channel, owed, keys_since_due, last_tick_elapsed>>
    /\ producer' = "check"
    /\ UNCHANGED since_tick
    /\ UNCHANGED cvars

\* event::read(), and tx.send(Event::Input(key)).expect("can send events")
ReadSend ==
    /\ producer = "read"
    /\ Len(channel) < MaxQueue
    /\ LET e == Head(terminal_events)
       IN  /\ terminal_events' = Tail(terminal_events)
           /\ IF IsKey(e)
              THEN /\ owed' = Append(owed, e)
                   /\ \E ok \in SendOutcomes :
                        IF ok
                        THEN /\ channel' = Append(channel, e)
                             /\ keys_since_due' = IF since_tick >= TICK_RATE
                                                  THEN keys_since_due + 1
                                                  ELSE keys_since_due
                             /\ producer' = "check"
                        ELSE /\ producer' = "panicked"
                             /\ UNCHANGED <<channel, keys_since_due>>
              ELSE /\ producer' = "check"
                   /\ UNCHANGED <<channel, owed, keys_since_due>>
    /\ UNCHANGED <<last_tick_elapsed, since_tick>>
    /\ UNCHANGED cvars

\* if last_tick.elapsed() >= tick_rate { if let Ok(_) = tx.send(Event::Tick)
\* { last_tick = Instant::now(); } }
CheckTick ==
    /\ producer = "check"
    /\ Len(channel) < MaxQueue
    /\ producer' = "poll"
    /\ IF last_tick_elapsed >= TICK_RATE
       THEN \E ok \in SendOutcomes :
               IF ok
               THEN /\ channel' = Append(channel, "Tick")
                    /\ owed' = Append(owed, "Tick")
                    /\ last_tick_elapsed' = 0
                    /\ since_tick' = 0
                    /\ keys_since_due' = 0
               ELSE UNCHANGED <<channel, owed, last_tick_elapsed, since_tick,
                                keys_since_due>>
       ELSE UNCHANGED <<channel, owed, last_tick_elapsed, since_tick, keys_since_due>>
    /\ UNCHANGED terminal_events
    /\ UNCHANGED cvars

\* Instant::now() moves on by one quantum
TimeAdvance ==
    /\ last_tick_elapsed < TICK_RATE + MaxLate * Quantum
    /\ last_tick_elapsed' = last_tick_elapsed + Quantum
    /\ since_tick' = IF since_tick < TICK_RATE + MaxLate * Quantum
                     THEN since_tick + Quantum
                     ELSE since_tick
    /\ UNCHANGED <<channel, terminal_events, producer, owed, keys_since_due>>
    /\ UNCHANGED cvars

\* rx.recv() returns the oldest event of the channel, which is e
Received(e) ==
    /\ channel # <<>>
    /\ Head(channel) = e
    /\ channel' = Tail(channel)
    /\ owed' = IF owed = <<>> THEN owed ELSE Tail(owed)
    /\ UNCHANGED <<terminal_events, producer, last_tick_elapsed, since_tick,
                   keys_since_due>>

----------------------------------------------------------------------------
(* Specifications.  Each one runs the same handlers under a bounded           *)
(* environment: which characters the user types into the two text fields,  *)
(* how many Ticks arrive, and whether the wall clock moves.                 *)

\* the event is handed to the match as soon as it occurs: the producer thread
\* and the channel stay out of the picture
Direct == UNCHANGED io

\* whether the user presses character c now: any key while the menu keys are
\* active, and in text entry only the characters of the field being edited
Typed(c, labelChars, secretChars) ==
    active_menu_keys \/ c \in (IF key_input_flag THEN secretChars ELSE labelChars)

\* Ticks still delivered since the countdown last restarted
TickCap == 2
\* most displayed entries, and most entries of app.keys, in the specifications
\* of the refresh pass
MaxRefreshed == 2

(* Spec: the keyboard-driven registry within one reading of the clock *)

InitKeyboard == Init /\ now = 0

TypedKeyboard(c) == Typed(c, {"x"}, {"x"})

Next ==
    \/ TypedKeyboard("q") /\ KeyQ /\ Direct
    \/ TypedKeyboard("h") /\ KeyH /\ Direct
    \/ TypedKeyboard("c") /\ KeyC /\ Direct
    \/ TypedKeyboard("a") /\ KeyA /\ Direct
    \/ TypedKeyboard("d") /\ KeyD /\ Direct
    \/ KeyChar /\ Direct
    \/ KeyEsc /\ Direct
    \/ KeyTab /\ Direct
    \/ KeyEnter /\ Direct
    \/ KeyBackspace /\ Direct
    \/ KeyDown /\ Direct
    \/ KeyUp /\ Direct
    \/ KeyOther /\ Direct
    \/ app.progress < TickCap * PROGRESS_STEP /\ Tick /\ Direct

Spec == InitKeyboard /\ [][Next]_vars

(* SpecRefresh: the refresh pass under a moving clock, with the keys needed *)
(* to add two accounts and remove them, and the history of Ticks recorded   *)

InitRefresh == Init /\ overflow_checks

TypedRefresh(c) == ~active_menu_keys /\ Typed(c, {}, {"a"})

NextRefresh ==
    \/ TypedRefresh("a") /\ KeyA /\ Direct
    \/ active_menu_keys /\ KeyD /\ Direct
    \/ KeyChar /\ Direct
    \/ KeyEsc /\ Direct
    \/ KeyTab /\ Direct
    \/ Len(app.messages) < MaxRefreshed /\ Len(app.keys) < MaxRefreshed /\ KeyEnter /\ Direct
    \/ app.progress < TickCap * PROGRESS_STEP /\ TickObserved /\ Direct
    \/ ClockAdvance /\ Direct

SpecRefresh == InitRefresh /\ [][NextRefresh]_vars

(* SpecCountdown: every Tick delivered, so that the countdown runs to its   *)
(* wrap, under a moving clock, while accounts are added. The user types     *)
(* into the secret field only, so every account has the empty label.        *)

\* most displayed entries, and most entries of app.keys, while the countdown
\* runs to its wrap
MaxCounted == 1

NextCountdown ==
    \/ key_input_flag /\ KeyChar /\ Direct
    \/ KeyTab /\ Direct
    \/ Len(app.messages) < MaxCounted /\ Len(app.keys) < MaxCounted /\ KeyEnter /\ Direct
    \/ TickObserved /\ Direct
    \/ ClockAdvance /\ Direct

SpecCountdown == InitRefresh /\ [][NextCountdown]_vars

(* SpecTextEntry: every character key, Up and Down while text is being      *)
(* entered, and the keys that lead there and back.  The named characters    *)
(* are pressed during text entry only, and the only account ever added has  *)
(* the empty label and the secret "x".                                      *)

NextTextEntry ==
    \/ ~active_menu_keys /\ KeyQ /\ Direct
    \/ ~active_menu_keys /\ KeyH /\ Direct
    \/ ~active_menu_keys /\ KeyC /\ Direct
    \/ ~active_menu_keys /\ KeyA /\ Direct
    \/ ~active_menu_keys /\ KeyD /\ Direct
    \/ KeyChar /\ Direct
    \/ KeyEsc /\ Direct
    \/ KeyTab /\ Direct
    \/ KeyBackspace /\ Direct
    \/ /\ app.account = <<>> /\ app.key = <<"x">>
       /\ Len(app.messages) < MaxCounted /\ Len(app.keys) < MaxCounted
       /\ KeyEnter /\ Direct
    \/ KeyDown /\ Direct
    \/ KeyUp /\ Direct

SpecTextEntry == InitKeyboard /\ [][NextTextEntry]_vars

(* SpecDerive: generate_code run on every secret the buffer can hold, at    *)
(* every reading of the clock                                               *)

NextDerive ==
    \/ \E key \in Secrets : DeriveRun(key) /\ Direct
    \/ ClockAdvance /\ Direct

SpecDerive == InitRefresh /\ [][NextDerive]_vars

(* SpecChannel: the producer thread, the channel and the consumer loop,     *)
(* the user pressing 'q', 'c' and Tab with the menu keys active, for a      *)
(* bounded number of Ticks                                                  *)

\* Ticks sent so far: those handled (no account is registered, so each one
\* added one increment to the countdown) and those still in the channel
TicksSent ==
    app.progress \div PROGRESS_STEP
        + Cardinality({i \in 1..Len(channel) : channel[i] = "Tick"})

InitChannel == Init /\ now = 0 /\ overflow_checks

NextChannel ==
    \/ \E e \in {"q", "c", "Tab"} : TerminalEvent(e)
    \/ PollReady
    \/ PollTimeout
    \/ ReadSend
    \/ TicksSent < TickCap /\ CheckTick
    \/ TimeAdvance
    \/ Received("q") /\ KeyQ
    \/ Received("c") /\ KeyC
    \/ Received("Tab") /\ KeyTab
    \/ Received("Tick") /\ Tick

SpecChannel == InitChannel /\ [][NextChannel]_vars

(* SpecProducer: the producer thread under any stream of key presses and    *)
(* window resizes, the consumer handling what it receives, for ever.  The   *)
(* two threads are scheduled fairly and the clock keeps moving.             *)

ProducerStep == PollReady \/ PollTimeout \/ ReadSend \/ CheckTick

ConsumerStep ==
    \/ Received("Other") /\ KeyOther
    \/ Received("Tick") /\ Tick

NextProducer ==
    \/ \E e \in {"Other", "Resize"} : TerminalEvent(e)
    \/ PollReady
    \/ PollTimeout
    \/ ReadSend
    \/ CheckTick
    \/ TimeAdvance
    \/ Received("Other") /\ KeyOther
    \/ Received("Tick") /\ Tick

SpecProducer ==
    /\ InitChannel
    /\ [][NextProducer]_vars
    /\ WF_vars(ProducerStep)
    /\ WF_vars(ConsumerStep)
    /\ WF_vars(TimeAdvance)

----------------------------------------------------------------------------
(* Properties *)

Min(a, b) == IF a <= b THEN a ELSE b
Max(a, b) == IF a >= b THEN a ELSE b

\* the displayed entry i carries the code of the secret it was added with, at the clock's reading
Current(msgs, i) == msgs[i].key = to_string(generate_code(added[i], now))

\* entry i of app.keys was added and is no longer displayed under its label
Removed(i) == \A j \in 1..Len(app.messages) : app.messages[j].address # app.keys[i][2]

\* msgs2 is msgs1 without its element at 0-based position i, the others in order
DropsExactly(msgs1, msgs2, i) ==
    /\ Len(msgs2) = Len(msgs1) - 1
    /\ \A j \in 1..Len(msgs2) : msgs2[j] = IF j <= i THEN msgs1[j] ELSE msgs1[j + 1]

\* every displayed entry was added with a non-empty secret
AllKeyed == \A i \in 1..Len(added) : added[i] # <<>>

\* 'd', Down or Up handled as a menu key
RemoveSelected == active_menu_keys /\ KeyD
SelectNext == active_menu_keys /\ KeyDown
SelectPrev == active_menu_keys /\ KeyUp

\* C1: whenever the displayed list is non-empty (here: of accounts added with
\* a secret), the selected index lies in [0, len - 1].
C1_SelectedInRange ==
    (Len(app.messages) > 0 /\ AllKeyed) => selected \in 0..(Len(app.messages) - 1)

\* C2: RemoveSelected, SelectNext and SelectPrev issued while the list is
\* empty or the selected index is out of range change neither the list, nor
\* the selected index, nor the countdown, and the consumer loop keeps running.
C2_StaleIndexIsNoOp ==
    [][(selected >= Len(app.messages) /\ (RemoveSelected \/ SelectNext \/ SelectPrev))
        => /\ app'.messages = app.messages
           /\ selected' = selected
           /\ app'.progress = app.progress
           /\ consumer' = "loop"]_vars

\* C3: Enter with an empty secret appends nothing to app.messages and nothing
\* to app.keys.
C3_EmptySecretIsNoOp ==
    [][(KeyEnter /\ app.key = <<>>)
        => /\ app'.messages = app.messages
           /\ app'.keys = app.keys]_vars

\* C5 as stated: remove with a valid selected index i deletes exactly the entry
\* at position i, and afterwards the selected index is max(0, min(i, len - 1)),
\* len the length after the removal.
C5_RemoveReclamps ==
    [][(selected < Len(app.messages) /\ RemoveSelected /\ AllKeyed)
        => /\ DropsExactly(app.messages, app'.messages, selected)
           /\ selected' = Max(0, Min(selected, Len(app'.messages) - 1))]_vars

\* C5 as amended: remove with a valid selected index i deletes exactly the
\* displayed entry at position i, and afterwards the selected index is
\* max(0, i - 1): the selection moves to the previous entry.
C5_RemoveSelectsPrevious ==
    [][(selected < Len(app.messages) /\ RemoveSelected)
        => /\ DropsExactly(app.messages, app'.messages, selected)
           /\ selected' = Max(0, selected - 1)
           /\ consumer' = "loop"]_vars

\* C5 witness: of two keyed accounts the second one, at index 1, was removed;
\* the first is still displayed and selected, followed by a later entry.
C5_Witness ==
    /\ Len(app.keys) = 2
    /\ Len(app.messages) = 2
    /\ app.messages[1].address = app.keys[1][2]
    /\ Removed(2)
    /\ selected = 0
    /\ consumer = "loop"

\* C6: on a non-empty list of length n, SelectNext moves the selected index i
\* to (i + 1) mod n and SelectPrev moves it to (i - 1 + n) mod n; neither
\* changes the list.  (i is reduced mod n before adding, which gives the same
\* residues and keeps i + 1 computable when i is usize::MAX.)
C6_SelectWrapsCircularly ==
    [][LET n == Len(app.messages)
       IN  (n > 0 /\ AllKeyed) =>
            /\ SelectNext => /\ selected' = ((selected % n) + 1) % n
                             /\ app' = app
            /\ SelectPrev => /\ selected' = ((selected % n) + n - 1) % n
                             /\ app' = app]_vars

\* C7: Enter with a non-empty secret appends exactly one entry at the end of
\* the displayed list (and of app.keys), leaving the existing entries and the
\* selected index unchanged; a removal leaves the remaining entries in their
\* order; of two entries, removing index 0 leaves the second one, selected 0.
C7_InsertionOrderPreserved ==
    [][/\ (KeyEnter /\ Len(app.key) > 0)
            => /\ Len(app'.messages) = Len(app.messages) + 1
               /\ \A j \in 1..Len(app.messages) : app'.messages[j] = app.messages[j]
               /\ app'.messages[Len(app'.messages)].address = app.account
               /\ app'.keys = Append(app.keys, <<app.key, app.account, 0>>)
               /\ selected' = selected
       /\ (RemoveSelected /\ consumer' = "loop")
            => /\ DropsExactly(app.messages, app'.messages, selected)
               /\ app'.keys = app.keys
       /\ (RemoveSelected /\ selected = 0 /\ Len(app.messages) = 2)
            => /\ app'.messages = <<app.messages[2]>>
               /\ selected' = 0]_vars

\* C7 witness: two accounts with different labels were added, the first one
\* was removed, and the second one is what is displayed, selected.
C7_Witness ==
    /\ Len(app.keys) = 2
    /\ app.keys[1][2] # app.keys[2][2]
    /\ Len(app.messages) = 1
    /\ app.messages[1].address = app.keys[2][2]
    /\ added[1] = app.keys[2][1]
    /\ selected = 0
    /\ consumer = "loop"

\* C4: once Ticks spanning more than one 30-second step have been processed,
\* after a Tick every displayed account (all of them added with a secret)
\* carries the code of its own secret for the current window.
C4_CodesCurrentAfterAStep ==
    [][(TickObserved /\ first_tick_at # -1 /\ now - first_tick_at > TX /\ AllKeyed)
        => \A i \in 1..Len(app'.messages) : Current(app'.messages, i)]_vars

\* C10: after the first Tick processed, every account added before it (all of
\* them with a non-empty secret) carries the code of its own secret at the
\* current time.
C10_FirstTickDerives ==
    [][(TickObserved /\ first_tick_at = -1 /\ AllKeyed)
        => \A i \in 1..Len(app'.messages) : Current(app'.messages, i)]_vars

\* the pass of App::update overwrites nothing: every key's fresh code is
\* already displayed, or no displayed entry carries the key's label
NoOverwriteDue ==
    \A i \in 1..Len(app.keys) :
        \/ \E j \in 1..Len(app.messages) :
              app.messages[j].key = to_string(generate_code(app.keys[i][1], now))
        \/ \A j \in 1..Len(app.messages) : app.messages[j].address # app.keys[i][2]

\* C8 as stated: a Tick adds the increment to the countdown; exactly when the
\* sum exceeds 1.0 the countdown wraps to 0.0 and that Tick leaves every
\* account with a freshly derived code; a Tick that does not wrap overwrites
\* no code.
C8_WrapTriggersRecomputation ==
    [][TickObserved =>
        LET incremented == app.progress + PROGRESS_STEP
        IN  /\ app'.progress = IF incremented > PROGRESS_FULL THEN 0 ELSE incremented
            /\ incremented <= PROGRESS_FULL => app'.messages = app.messages
            /\ incremented > PROGRESS_FULL =>
                 \A i \in 1..Len(app'.messages) :
                    added[i] # <<>> => Current(app'.messages, i)]_vars

\* C8 as amended: every Tick re-derives the code of every entry of app.keys,
\* wrap or no wrap.  When the pass overwrites nothing, the displayed list is
\* unchanged and the countdown grows by the increment, wrapping to 0.0 exactly
\* when the sum exceeds 1.0.  When the pass overwrites a code, the countdown
\* restarts and ends the Tick at one increment.
C8_TickCountdown ==
    [][TickObserved =>
        LET incremented == app.progress + PROGRESS_STEP
        IN  IF NoOverwriteDue
            THEN /\ app'.messages = app.messages
                 /\ app'.progress = IF incremented > PROGRESS_FULL THEN 0 ELSE incremented
            ELSE /\ app'.messages # app.messages \/ Len(app.keys) > 1
                 /\ app'.progress = PROGRESS_STEP]_vars

\* C8 witness: with an account registered, the countdown has wrapped to 0.0
\* on a Tick.
C8_Witness ==
    /\ first_tick_at # -1
    /\ app.progress = 0
    /\ Len(app.keys) > 0
    /\ Len(app.messages) > 0

\* C9: the countdown fraction is within [0.0, 1.0] in every reachable state.
C9_ProgressInUnitInterval ==
    0 <= app.progress /\ app.progress <= PROGRESS_FULL

\* C9 witness: the countdown stands at its last value before the wrap.
C9_Witness ==
    /\ app.progress <= PROGRESS_FULL
    /\ app.progress + PROGRESS_STEP > PROGRESS_FULL

\* C11: while the consumer loop runs, the channel holds exactly the key
\* presses the producer has read and the Ticks it has emitted that the
\* consumer has not received yet, in the order of sending: none dropped,
\* none duplicated, none reordered.
C11_ChannelDeliversInOrder ==
    consumer = "loop" => channel = owed

\* C11 witness: the consumer has handled a Tab, and a Tick followed by a key
\* press wait in the channel.
C11_Witness ==
    /\ consumer = "loop"
    /\ key_input_flag
    /\ channel = <<"Tick", "c">>

\* C12: 'q' received while the menu keys are active ends the consumer loop;
\* from then on no event is taken from the channel and the consumer's state
\* does not change.
C12_QuitEndsTheLoop ==
    [][/\ (active_menu_keys /\ Received("q") /\ KeyQ) => consumer' = "exited"
       /\ consumer = "exited"
            => /\ UNCHANGED <<app, selected, active_menu_item, key_input_flag,
                              active_menu_keys, consumer, added>>
               /\ Len(channel') >= Len(channel)]_vars

\* C12 witness: the loop has ended on 'q', a Tick is left in the channel,
\* and the send of a later key press has failed.
C12_Witness ==
    /\ consumer = "exited"
    /\ channel = <<"Tick">>
    /\ producer = "panicked"

\* C14: two runs of generate_code on the same secret at two times of the
\* same 30-second window return the same code.
C14_SameWindowSameCode ==
    (/\ derived.prev # NoRun
     /\ derived.prev.secret = derived.last.secret
     /\ derived.prev.at \div TX = derived.last.at \div TX)
        => derived.prev.code = derived.last.code

\* C14 witness: the same non-empty secret was derived at the first and at
\* the last second of a window.
C14_Witness ==
    /\ derived.prev.secret = <<"x">>
    /\ derived.last.secret = <<"x">>
    /\ derived.prev.at = TX
    /\ derived.last.at = 2 * TX - 1

\* C15: the value returned by generate_code, for every secret, the empty one
\* included, and every time, is between 0 and 999999.
C15_CodeBelowModulus ==
    \A run \in {derived.prev, derived.last} :
        run # NoRun => 0 <= run.code /\ run.code <= CODE_MODULUS - 1

\* C15 witness: the empty secret and a non-empty one have been derived, in
\* different windows.
C15_Witness ==
    /\ derived.prev # NoRun
    /\ derived.prev.secret = <<>>
    /\ derived.last.secret # <<>>
    /\ derived.prev.at \div TX # derived.last.at \div TX

\* C16: the code string cached for every displayed account (here: accounts
\* added with a secret) has exactly 6 decimal digits.
C16_SixDigitsCached ==
    AllKeyed =>
        \A j \in 1..Len(app.messages) :
            /\ Len(app.messages[j].key) = 6
            /\ \A d \in 1..Len(app.messages[j].key) : app.messages[j].key[d] \in 0..9

\* a Tick is sent
TickSent == CheckTick /\ channel' = Append(channel, "Tick")

\* C17: the producer restarts its tick timer only in a step that sends a
\* Tick; a loop iteration that ends with at least tick_rate elapsed sends a
\* Tick and restarts the timer; at most one key event is sent between a Tick
\* becoming due and that Tick being sent; and under any stream of key presses
\* Ticks are sent again and again.
C17_KeysDoNotStarveTicks ==
    /\ [][last_tick_elapsed' < last_tick_elapsed => TickSent]_vars
    /\ [][(producer = "check" /\ producer' = "poll" /\ last_tick_elapsed >= TICK_RATE)
            => TickSent /\ last_tick_elapsed' = 0]_vars
    /\ [](keys_since_due <= 1)
    /\ []<><<TickSent>>_vars

\* C17 witness: a key press was sent while a Tick was due, the timer was left
\* running, and the producer is about to send the Tick.
C17_Witness ==
    /\ keys_since_due = 1
    /\ last_tick_elapsed >= TICK_RATE
    /\ since_tick = last_tick_elapsed
    /\ producer = "check"

\* C18: a Tick that is not the first one of its 30-second window (every Tick
\* so far fell within the current window) and at which the countdown does
\* not exceed 1.0 adds the increment to the countdown, whatever accounts are
\* registered (here: several, each added with a secret and still displayed).
C18_CountdownGrowsWithinAWindow ==
    [][(/\ TickObserved
        /\ first_tick_at # -1
        /\ first_tick_at \div TX = now \div TX
        /\ app.progress + PROGRESS_STEP <= PROGRESS_FULL
        /\ AllKeyed
        /\ Len(app.messages) > 1
        /\ Len(app.keys) = Len(app.messages))
        => app'.progress = app.progress + PROGRESS_STEP]_vars

\* C19: app.keys and app.messages (here: of accounts added with a secret)
\* describe the same accounts: same length, same label at each position.
C19_KeysMatchDisplayedAccounts ==
    AllKeyed =>
        /\ Len(app.keys) = Len(app.messages)
        /\ \A i \in 1..Len(app.messages) :
              i <= Len(app.keys) => app.keys[i][2] = app.messages[i].address

\* C20: the cached code of every displayed account added with a secret is a
\* derivation of that secret for some 30-second window.
C20_CodeDerivedFromOwnSecret ==
    \A i \in 1..Len(app.messages) :
        added[i] # <<>> =>
            \E t \in Times : app.messages[i].key = to_string(generate_code(added[i], t))

\* the handler of KeyCode::Char(c) runs
CharKey(c) ==
    \/ c = "q" /\ KeyQ
    \/ c = "h" /\ KeyH
    \/ c = "c" /\ KeyC
    \/ c = "a" /\ KeyA
    \/ c = "d" /\ KeyD
    \/ c = "x" /\ KeyChar

\* C21: while text entry is active, a character key, 'q', 'h', 'c', 'a' and
\* 'd' included, appends that character to the secret buffer if
\* key_input_flag is set and to the label buffer otherwise, and leaves the
\* other buffer alone; Up and Down change no buffer.  In both cases the
\* account list, the secret list, the selected index, the active tab, the
\* countdown and the running state of the loop are unchanged.
C21_TextEntryOnlyTypes ==
    [][~active_menu_keys =>
        /\ \A c \in Chars :
              CharKey(c) =>
                /\ app'.key = IF key_input_flag THEN Append(app.key, c) ELSE app.key
                /\ app'.account = IF key_input_flag THEN app.account
                                                    ELSE Append(app.account, c)
        /\ (KeyDown \/ KeyUp) => app'.key = app.key /\ app'.account = app.account
        /\ ((\E c \in Chars : CharKey(c)) \/ KeyDown \/ KeyUp) =>
              /\ app'.messages = app.messages
              /\ app'.keys = app.keys
              /\ app'.progress = app.progress
              /\ UNCHANGED <<selected, active_menu_item, consumer>>]_vars

\* C21 witness: with an account displayed and text entry active, 'q' was
\* typed into the secret buffer and 'd' into the label buffer.
C21_Witness ==
    /\ ~active_menu_keys
    /\ app.key = <<"q">>
    /\ app.account = <<"d">>
    /\ Len(app.messages) = 1
    /\ Len(app.keys) = 1
    /\ consumer = "loop"

====
